---- MODULE Spec2Model ----
(***************************************************************************)
(* Lead-generation server: the campaign progress simulator                 *)
(* (simulateScraping), the WebSocket connection registry and               *)
(* broadcastToUser, the campaign REST handlers and the storage layer with  *)
(* the foreign keys the schema declares.                                   *)
(*                                                                         *)
(* Scheduling: one event loop.  A handler runs until its next await; every *)
(* awaited storage call is one atomic step that applies the statement and  *)
(* resumes the handler up to its next await.  Suspended callbacks resume   *)
(* in any order (the statements travel over a connection pool), and the    *)
(* interval timer fires whether or not earlier callbacks have returned.    *)
(*                                                                         *)
(* Nothing awaits the promise of a timer callback: when it is rejected the *)
(* runtime either ends the process (up becomes FALSE and nothing happens   *)
(* any more) or logs a warning and goes on.  Both outcomes are modelled.   *)
(***************************************************************************)
EXTENDS Integers, Sequences, FiniteSets, TLC

\* ----------------------------------------------------------------- bounds
MaxCampaigns == 1      \* campaign rows ever created
MaxStarts    == 2      \* accepted start requests (timers ever created)
MaxInFlight  == 2      \* tick callbacks suspended at an await at one time
MaxFires     == 11     \* firings of one timer
MaxConns     == 2      \* WebSocket connections ever opened
MaxPatches   == 1      \* PATCH /api/campaigns/:id requests
MaxDeletes   == 1      \* DELETE /api/campaigns/:id requests
MaxFailures  == 1      \* lead inserts of one run that the database fails
MaxStatsTicks == 2     \* ticks of the run that GET /api/stats requests overlap
MaxUiCampaigns == 2    \* campaigns created from the LeadGeneration tab

\* ------------------------------------------------------ program constants
totalPages   == 10     \* simulateScraping: const totalPages
LeadsPerTick == 2      \* simulateScraping: for (let i = 0; i < 2; i++)
MaxIncrement == 5      \* Math.floor(Math.random() * 5) + 1

Users       == {"u1", "u2"}
Statuses    == {"draft", "running", "completed", "failed"}
CampaignIds == 1..(MaxCampaigns + 1)   \* campaign ids; the last never exists
ConnIds     == 1..MaxConns

VARIABLES
  campaigns,   \* campaigns table: id -> row, for the rows that exist
  nextId,      \* number of campaign rows created so far (ids are never reused)
  leads,       \* leads table: sequence of rows in insertion order
  runs,        \* timers created by simulateScraping, in start order
  clients,     \* wss.clients with each socket's readyState and userId tag
  authSent,    \* per connection: the non-empty userIds its auth messages carried
  inbox,       \* per connection: whether any message was sent to it
  lastEvent,   \* the latest broadcastToUser call and the sockets it sent to
  response,    \* the latest REST request and its response
  nPatches, nDeletes,
  up,          \* the server process is running
  statsReq,    \* the GET /api/stats request being served, with the counts read so far
  ui           \* the state of the LeadGeneration component in one browser tab

vars == <<campaigns, nextId, leads, runs, clients, authSent, inbox, lastEvent, response,
          nPatches, nDeletes, up, statsReq, ui>>

\* ------------------------------------------------------------ pure helpers

\* Math.round(num / den) for num, den > 0: round half up
MathRound(num, den) == (2 * num + den) \div (2 * den)

\* const progress = Math.round((currentPage / totalPages) * 100)
ProgressOf(currentPage) == MathRound(currentPage * 100, totalPages)

\* Math.floor(Math.random() * 5) + 1
Increments == 1..MaxIncrement

\* Math.random() > 0.3
ValidatedDraws == {TRUE, FALSE}

NoUpdates == [f \in {} |-> 0]

\* an UPDATE that is dropped: the row stays as it was
MergeRejecting(row, updates) == row

\* { ...row, ...updates }
Merge(row, updates) ==
  [f \in DOMAIN row |-> IF f \in DOMAIN updates THEN updates[f] ELSE row[f]]

\* a campaigns table whose status column defaults to "failed"
CampaignDefaultsFailed ==
  [userId |-> "", status |-> "failed", progress |-> 0, totalPages |-> 0, leadsFound |-> 0]

\* campaigns table defaults (schema.ts) under { ...campaign, userId }
CampaignDefaults ==
  [userId |-> "", status |-> "draft", progress |-> 0, totalPages |-> 0, leadsFound |-> 0]

\* storage.createCampaign: INSERT ... VALUES ({ ...campaign, userId })
CreateCampaign(tbl, id, userId, body) ==
  [i \in DOMAIN tbl \cup {id} |->
     IF i = id THEN Merge(Merge(CampaignDefaults, body), [userId |-> userId])
     ELSE tbl[i]]

\* storage.updateCampaign: UPDATE ... WHERE id = :id (no row: nothing changes)
UpdateCampaign(tbl, id, updates) ==
  [i \in DOMAIN tbl |-> IF i = id THEN Merge(tbl[i], updates) ELSE tbl[i]]

\* leads.campaign_id REFERENCES campaigns(id): no ON DELETE action declared
LeadsOf(tbl, id) == {k \in 1..Len(tbl) : tbl[k].campaignId = id}

\* a leads table whose campaign_id is no foreign key
DeleteCampaignUnchecked(id) == TRUE

\* storage.deleteCampaign: the statement fails while a lead references the row
DeleteCampaignOk(id) == LeadsOf(leads, id) = {}

DeleteCampaign(tbl, id) == [i \in DOMAIN tbl \ {id} |-> tbl[i]]

\* storage.createLead: the insert fails when campaign_id names no campaign row
CreateLeadOk(tbl, campaignId) == campaignId \in DOMAIN tbl

\* storage.createLead: INSERT ... RETURNING, the id is the column default (a new uuid)
CreateLead(tbl, campaignId, validated) ==
  Append(tbl, [id |-> Len(tbl) + 1, campaignId |-> campaignId, isValidated |-> validated])

\* wss.clients: a socket leaves the set when it is closed
WssClients == {c \in DOMAIN clients : clients[c].readyState # "closed"}

\* broadcastToUser without the readyState test
RecipientsAnyState(userId) == {c \in WssClients : clients[c].userId = userId}

\* broadcastToUser: the sockets the message is sent to
Recipients(userId) ==
  {c \in WssClients : clients[c].readyState = "open" /\ clients[c].userId = userId}

\* client.send(...) for each of them
Deliver(userId) ==
  [c \in DOMAIN inbox |-> inbox[c] \/ c \in Recipients(userId)]

NoEvent == [seq |-> 0, type |-> "none", to |-> "", campaignId |-> 0, progress |-> 0,
            currentPage |-> 0, totalPages |-> 0, leadsFound |-> 0, recipients |-> {}]

\* the message of a broadcastToUser call, numbered, with the sockets it is sent to
Event(type, to, campaignId, progress, currentPage, tp, leadsFound) ==
  [seq |-> lastEvent.seq + 1, type |-> type, to |-> to, campaignId |-> campaignId,
   progress |-> progress, currentPage |-> currentPage, totalPages |-> tp,
   leadsFound |-> leadsFound, recipients |-> Recipients(to)]

NoResponse == [route |-> "none", status |-> 0, id |-> 0, user |-> "", sent |-> NoUpdates,
               cause |-> "none"]

\* res.status(status).json(...), with the request it answers
Respond(route, status, id, user, body) ==
  [route |-> route, status |-> status, id |-> id, user |-> user, sent |-> body,
   cause |-> "none"]

\* the answer of a catch block, with what was thrown inside the try
RespondCaught(route, status, id, user, body, cause) ==
  [Respond(route, status, id, user, body) EXCEPT !.cause = cause]

\* ------------------------------------------------------------------ state

NoRuns == <<>>

\* no stats request is being served
NoStats == [pc |-> "idle", user |-> "", totalLeads |-> 0, validatedLeads |-> 0,
            activeCampaigns |-> 0, conversionRate |-> 0]

\* the LeadGeneration component after its first render: useState(false),
\* useState(null), both mutations idle, no message received. create and start are
\* the two mutations: "idle", "sent" (isPending, request on its way) or "ok"
\* (isPending, response on its way back)
NoUi == [isProcessing |-> FALSE,
         currentCampaign |-> [id |-> 0, progress |-> 0, totalPages |-> 0, leadsFound |-> 0],
         create |-> "idle", createId |-> 0, start |-> "idle", startId |-> 0,
         lastMessage |-> 0]

Init ==
  /\ campaigns = [i \in {} |-> CampaignDefaults]
  /\ nextId = 0
  /\ leads = <<>>
  /\ runs = NoRuns
  /\ clients = [c \in {} |-> [readyState |-> "open", userId |-> "", openedBy |-> "",
                               claimed |-> ""]]
  /\ authSent = [c \in {} |-> {}]
  /\ inbox = [c \in {} |-> FALSE]
  /\ lastEvent = NoEvent
  /\ response = NoResponse
  /\ nPatches = 0
  /\ nDeletes = 0
  /\ up = TRUE
  /\ statsReq = NoStats
  /\ ui = NoUi

\* ------------------------------------------------------------ REST routes

\* the handler of POST /api/campaigns, for at most max rows
PostCampaign(max, u, body) ==
  /\ up
  /\ nextId < max
  /\ nextId' = nextId + 1
  /\ campaigns' = CreateCampaign(campaigns, nextId + 1, u, body)
  /\ response' = Respond("create", 200, nextId + 1, u, body)
  /\ UNCHANGED <<leads, runs, clients, authSent, inbox, lastEvent, nPatches, nDeletes, up, statsReq>>

\* POST /api/campaigns from a client other than the LeadGeneration tab
CreateCampaignReq(u, body) == PostCampaign(MaxCampaigns, u, body) /\ UNCHANGED ui

\* simulateScraping up to setInterval: a new timer with its own closure
NewRun(campaignId, userId) ==
  [campaignId |-> campaignId, userId |-> userId, currentPage |-> 0, leadsFound |-> 0,
   cleared |-> FALSE, cbs |-> {}, rejected |-> {}, sent |-> {}, completions |-> 0]

\* a start route that also resets the counters of the row
StartUpdatesResetting ==
  [status |-> "running", progress |-> 0, totalPages |-> 0, leadsFound |-> 0]

\* the updates of the start route
StartUpdates == [status |-> "running", progress |-> 0]

\* the handler of POST /api/campaigns/:id/start
PostStart(u, id) ==
  /\ up
  /\ Len(runs) < MaxStarts
  /\ campaigns' = UpdateCampaign(campaigns, id, StartUpdates)
  /\ runs' = Append(runs, NewRun(id, u))
  /\ response' = Respond("start", 200, id, u, NoUpdates)
  /\ UNCHANGED <<nextId, leads, clients, authSent, inbox, lastEvent, nPatches, nDeletes, up, statsReq>>

\* POST /api/campaigns/:id/start from a client other than the LeadGeneration tab
StartReq(u, id) == PostStart(u, id) /\ UNCHANGED ui

\* PATCH /api/campaigns/:id: the body goes to updateCampaign as it is; the result is
\* broadcast to the requester as campaign_updated
PatchReq(u, id, body) ==
  /\ up
  /\ nPatches < MaxPatches
  /\ nPatches' = nPatches + 1
  /\ campaigns' = UpdateCampaign(campaigns, id, body)
  /\ lastEvent' = Event("campaign_updated", u, id, 0, 0, 0, 0)
  /\ inbox' = Deliver(u)
  /\ response' = Respond("patch", 200, id, u, body)
  /\ UNCHANGED <<nextId, leads, runs, clients, authSent, nDeletes, up, statsReq, ui>>

\* DELETE /api/campaigns/:id: a failed statement is caught and answered 500
DeleteReq(u, id) ==
  /\ up
  /\ nDeletes < MaxDeletes
  /\ nDeletes' = nDeletes + 1
  /\ IF DeleteCampaignOk(id)
     THEN /\ campaigns' = DeleteCampaign(campaigns, id)
          /\ response' = Respond("delete", 200, id, u, NoUpdates)
     ELSE /\ campaigns' = campaigns
          /\ response' = RespondCaught("delete", 500, id, u, NoUpdates, "storage")
  /\ UNCHANGED <<nextId, leads, runs, clients, authSent, inbox, lastEvent, nPatches, up, statsReq, ui>>

\* what can throw inside the try block of POST /api/campaigns: the schema's parse of
\* the body, or the insert
CreateFailures == {"body", "storage"}

\* POST /api/campaigns whose try block throws: any error is answered 400
CreateCampaignFails(u, cause) ==
  /\ up
  /\ response' = RespondCaught("create", 400, 0, u, NoUpdates, cause)
  /\ UNCHANGED <<campaigns, nextId, leads, runs, clients, authSent, inbox, lastEvent,
                 nPatches, nDeletes, up, statsReq, ui>>

\* GET /api/campaigns/:id: 404 when getCampaign finds no row
GetCampaignReq(u, id) ==
  /\ up
  /\ response' = Respond("get", IF id \in DOMAIN campaigns THEN 200 ELSE 404, id, u, NoUpdates)
  /\ UNCHANGED <<campaigns, nextId, leads, runs, clients, authSent, inbox, lastEvent,
                 nPatches, nDeletes, up, statsReq, ui>>

\* GET /api/auth/user, /api/campaigns, /api/leads, /api/campaigns/:id/leads,
\* /api/stats, /api/files: a query and its result
ReadReq(route, u) ==
  /\ up
  /\ response' = Respond(route, 200, 0, u, NoUpdates)
  /\ UNCHANGED <<campaigns, nextId, leads, runs, clients, authSent, inbox, lastEvent,
                 nPatches, nDeletes, up, statsReq, ui>>

\* PATCH /api/campaigns/:id whose updateCampaign throws: answered 400, no broadcast
PatchFails(u, id, body) ==
  /\ up
  /\ nPatches < MaxPatches
  /\ nPatches' = nPatches + 1
  /\ response' = RespondCaught("patch", 400, id, u, body, "storage")
  /\ UNCHANGED <<campaigns, nextId, leads, runs, clients, authSent, inbox, lastEvent,
                 nDeletes, up, statsReq, ui>>

\* the ids of the lead rows
LeadIds(tbl) == {tbl[k].id : k \in 1..Len(tbl)}

\* storage.updateLead: UPDATE leads SET { ...updates } WHERE id = :id; the statement
\* fails when it gives a row the id of another row (primary key)
UpdateLeadOk(tbl, id, updates) ==
  "id" \in DOMAIN updates /\ id \in LeadIds(tbl) =>
    updates.id = id \/ updates.id \notin LeadIds(tbl)

UpdateLead(tbl, id, updates) ==
  [k \in 1..Len(tbl) |-> IF tbl[k].id = id THEN Merge(tbl[k], updates) ELSE tbl[k]]

\* PATCH /api/leads/:id: the body goes to updateLead as it is; any error is
\* answered 400
PatchLeadReq(u, id, body) ==
  /\ up
  /\ nPatches < MaxPatches
  /\ nPatches' = nPatches + 1
  /\ IF UpdateLeadOk(leads, id, body)
     THEN /\ leads' = UpdateLead(leads, id, body)
          /\ response' = Respond("patch_lead", 200, id, u, body)
     ELSE /\ leads' = leads
          /\ response' = RespondCaught("patch_lead", 400, id, u, body, "storage")
  /\ UNCHANGED <<campaigns, nextId, runs, clients, authSent, inbox, lastEvent, nDeletes, up, statsReq, ui>>

\* getLeadStats: leads inner join campaigns where campaigns.userId = userId
LeadsOfUser(userId) ==
  {k \in 1..Len(leads) : /\ leads[k].campaignId \in DOMAIN campaigns
                         /\ campaigns[leads[k].campaignId].userId = userId}

\* (validatedLeads / totalLeads * 100).toFixed(1), in tenths of a percent: "66.7" is
\* 667 and "0.0" is 0
ConversionRate(total, validated) ==
  IF total > 0 THEN MathRound(validated * 1000, total) ELSE 0

\* GET /api/stats up to the first await of getLeadStats: the count of the user's leads
StatsTotal(u) ==
  /\ up
  /\ statsReq.pc \in {"idle", "done"}
  /\ statsReq' = [NoStats EXCEPT !.pc = "validated", !.user = u,
                                 !.totalLeads = Cardinality(LeadsOfUser(u))]
  /\ UNCHANGED <<campaigns, nextId, leads, runs, clients, authSent, inbox, lastEvent, response,
                 nPatches, nDeletes, up, ui>>

\* the second query: the count of the user's validated leads
StatsValidated ==
  /\ up
  /\ statsReq.pc = "validated"
  /\ statsReq' = [statsReq EXCEPT !.pc = "active",
       !.validatedLeads = Cardinality({k \in LeadsOfUser(statsReq.user) : leads[k].isValidated})]
  /\ UNCHANGED <<campaigns, nextId, leads, runs, clients, authSent, inbox, lastEvent, response,
                 nPatches, nDeletes, up, ui>>

\* the third query: the count of the user's running campaigns
StatsActive ==
  /\ up
  /\ statsReq.pc = "active"
  /\ statsReq' = [statsReq EXCEPT !.pc = "rating",
       !.activeCampaigns = Cardinality({id \in DOMAIN campaigns :
            campaigns[id].userId = statsReq.user /\ campaigns[id].status = "running"})]
  /\ UNCHANGED <<campaigns, nextId, leads, runs, clients, authSent, inbox, lastEvent, response,
                 nPatches, nDeletes, up, ui>>

\* the fourth query (the average rating, which the result does not carry) returns;
\* getLeadStats builds its result from the counts read and the route sends it
StatsRespond ==
  /\ up
  /\ statsReq.pc = "rating"
  /\ statsReq' = [statsReq EXCEPT !.pc = "done",
       !.conversionRate = ConversionRate(statsReq.totalLeads, statsReq.validatedLeads)]
  /\ response' = Respond("stats", 200, 0, statsReq.user, NoUpdates)
  /\ UNCHANGED <<campaigns, nextId, leads, runs, clients, authSent, inbox, lastEvent,
                 nPatches, nDeletes, up, ui>>

\* ---------------------------------------------------------- middleware

\* the session a request carries: none, or that of a user, expired or not
NoSession == [user |-> "", state |-> "none"]

Sessions == {NoSession} \cup {[user |-> u, state |-> st] : u \in Users, st \in {"valid", "expired"}}

\* isAuthenticated: next() for a session that has not expired and for an expired one
\* whose refresh token is granted; 401 otherwise
IsAuthenticated(session, refreshed) ==
  session.state = "valid" \/ (session.state = "expired" /\ refreshed)

\* the routes that only read: auth user, campaign list, leads, stats, file list
ReadRoutes == {"auth_user", "list", "leads", "campaign_leads", "stats", "files"}

Routes == {"create", "get", "patch", "delete", "start", "patch_lead"} \cup ReadRoutes

\* a route table whose DELETE route has no isAuthenticated
ProtectedButDelete == Routes \ {"delete"}

\* the routes registered as app.<method>(path, isAuthenticated, handler)
Protected == Routes

\* Express calls the handler of a route when every middleware before it has called
\* next(); isAuthenticated answers 401 instead
Request(route, session, refreshed, id, handler) ==
  IF route \in Protected /\ ~IsAuthenticated(session, refreshed)
  THEN /\ up
       /\ response' = Respond(route, 401, id, session.user, NoUpdates)
       /\ UNCHANGED <<campaigns, nextId, leads, runs, clients, authSent, inbox, lastEvent,
                      nPatches, nDeletes, up, statsReq, ui>>
  ELSE handler

\* ------------------------------------------------- WebSocket connections

\* wss.on('connection', (ws, req) => ...): a socket joins wss.clients, open and
\* untagged; the request that opened it (openedBy: the user of its session, if any)
\* is not looked at
Connect(c, who) ==
  /\ up
  /\ c \notin DOMAIN clients
  /\ clients' = [k \in DOMAIN clients \cup {c} |->
                   IF k = c
                   THEN [readyState |-> "open", userId |-> "", openedBy |-> who, claimed |-> ""]
                   ELSE clients[k]]
  /\ authSent' = [k \in DOMAIN clients \cup {c} |-> IF k = c THEN {} ELSE authSent[k]]
  /\ inbox' = [k \in DOMAIN clients \cup {c} |-> IF k = c THEN FALSE ELSE inbox[k]]
  /\ UNCHANGED <<campaigns, nextId, leads, runs, lastEvent, response, nPatches, nDeletes, up, statsReq, ui>>

\* a handler in which the first auth message of a connection decides its tag
TagKeepsFirst(tag, data) ==
  IF tag = "" /\ data.type = "auth" /\ data.userId # "" THEN data.userId ELSE tag

\* if (data.type === 'auth' && data.userId) ws.userId = data.userId
TagAfter(tag, data) == IF data.type = "auth" /\ data.userId # "" THEN data.userId ELSE tag

\* the message names a user: an auth message with a non-empty userId
NamesUser(data) == data.type = "auth" /\ data.userId # ""

\* ws.on('message'); authSent and claimed keep what the connection has sent: every
\* user its auth messages named, and the one the latest of them named
Message(c, data) ==
  /\ up
  /\ c \in DOMAIN clients
  /\ clients[c].readyState = "open"
  /\ clients' = [clients EXCEPT ![c].userId = TagAfter(@, data),
                                ![c].claimed = IF NamesUser(data) THEN data.userId ELSE @]
  /\ authSent' = [authSent EXCEPT ![c] = IF NamesUser(data) THEN @ \cup {data.userId} ELSE @]
  /\ UNCHANGED <<campaigns, nextId, leads, runs, inbox, lastEvent, response,
                 nPatches, nDeletes, up, statsReq, ui>>

\* the closing handshake starts: the socket stays in wss.clients, readyState CLOSING
CloseStart(c) ==
  /\ up
  /\ c \in DOMAIN clients
  /\ clients[c].readyState = "open"
  /\ clients' = [clients EXCEPT ![c].readyState = "closing"]
  /\ UNCHANGED <<campaigns, nextId, leads, runs, authSent, inbox, lastEvent, response,
                 nPatches, nDeletes, up, statsReq, ui>>

\* ws.on('close'): the socket is closed and leaves wss.clients
CloseEnd(c) ==
  /\ up
  /\ c \in DOMAIN clients
  /\ clients[c].readyState = "closing"
  /\ clients' = [clients EXCEPT ![c].readyState = "closed"]
  /\ UNCHANGED <<campaigns, nextId, leads, runs, authSent, inbox, lastEvent, response,
                 nPatches, nDeletes, up, statsReq, ui>>

\* ------------------------------------------------------ simulateScraping

SetRun(r, rec) == [runs EXCEPT ![r] = rec]

\* a tick update that also writes the status
TickUpdatesWithStatus(cb) ==
  [progress |-> cb.progress, totalPages |-> cb.page, leadsFound |-> cb.leadsFound,
   status |-> "running"]

\* the updates of a tick: { progress, totalPages: currentPage, leadsFound }
TickUpdates(cb) ==
  [progress |-> cb.progress, totalPages |-> cb.page, leadsFound |-> cb.leadsFound]

\* tick callbacks suspended at an await, over all timers
RECURSIVE InFlight(_)
InFlight(n) == IF n = 0 THEN 0 ELSE Cardinality(runs[n].cbs) + InFlight(n - 1)

\* the interval fires: the callback runs to its first await
Fire(r, inc) ==
  /\ up
  /\ r \in DOMAIN runs
  /\ ~runs[r].cleared
  /\ runs[r].currentPage < MaxFires
  /\ InFlight(Len(runs)) < MaxInFlight
  /\ LET page == runs[r].currentPage + 1
         found == runs[r].leadsFound + inc
         cb == [page |-> page, pc |-> "update", i |-> 0, progress |-> ProgressOf(page),
                leadsFound |-> found]
     IN runs' = SetRun(r, [runs[r] EXCEPT !.currentPage = page, !.leadsFound = found,
                                          !.cbs = @ \cup {cb}])
  /\ UNCHANGED <<campaigns, nextId, leads, clients, authSent, inbox, lastEvent, response,
                 nPatches, nDeletes, up, statsReq, ui>>

\* await storage.updateCampaign(...) of the tick returns; the loop calls createLead
TickUpdate(r, cb) ==
  /\ up
  /\ r \in DOMAIN runs
  /\ cb \in runs[r].cbs
  /\ cb.pc = "update"
  /\ campaigns' = UpdateCampaign(campaigns, runs[r].campaignId, TickUpdates(cb))
  /\ runs' = SetRun(r, [runs[r] EXCEPT !.cbs = (@ \ {cb}) \cup {[cb EXCEPT !.pc = "lead"]}])
  /\ UNCHANGED <<nextId, leads, clients, authSent, inbox, lastEvent, response,
                 nPatches, nDeletes, up, statsReq, ui>>

\* if (currentPage >= totalPages)
Exhausted(run) == run.currentPage >= totalPages

\* what the runtime does with the rejected promise of a timer callback that nobody
\* awaits: raise it as an uncaught exception, which ends the process, or log a warning
UnhandledRejections == {"throw", "warn"}

\* a rejection that also clears the interval
RejectClearing(r, cb, mode) ==
  /\ runs' = SetRun(r, [runs[r] EXCEPT !.cbs = @ \ {cb}, !.rejected = @ \cup {cb.page},
                                       !.cleared = TRUE])
  /\ up' = (mode = "warn")
  /\ UNCHANGED <<leads, inbox, lastEvent>>

\* await storage.createLead(...) throws: the callback ends at the await, nothing
\* catches the error and the interval is left as it is
Reject(r, cb, mode) ==
  /\ runs' = SetRun(r, [runs[r] EXCEPT !.cbs = @ \ {cb}, !.rejected = @ \cup {cb.page}])
  /\ up' = (mode = "warn")
  /\ UNCHANGED <<leads, inbox, lastEvent>>

\* await storage.createLead(...) returns. After the last insert of the loop the
\* callback broadcasts scraping_progress and, when exhausted, clears the interval and
\* calls updateCampaign. An insert that names no campaign row fails.
TickLead(r, cb, validated) ==
  /\ up
  /\ r \in DOMAIN runs
  /\ cb \in runs[r].cbs
  /\ cb.pc = "lead"
  /\ LET run == runs[r]
         rest == run.cbs \ {cb}
     IN IF ~CreateLeadOk(campaigns, run.campaignId)
        THEN \E mode \in UnhandledRejections : Reject(r, cb, mode)
        ELSE /\ leads' = CreateLead(leads, run.campaignId, validated)
             /\ up' = up
             /\ IF cb.i + 1 < LeadsPerTick
                THEN /\ runs' = SetRun(r, [run EXCEPT !.cbs = rest \cup {[cb EXCEPT !.i = @ + 1]}])
                     /\ UNCHANGED <<inbox, lastEvent>>
                ELSE /\ lastEvent' = Event("scraping_progress", run.userId, run.campaignId,
                                           cb.progress, run.currentPage, totalPages,
                                           run.leadsFound)
                     /\ inbox' = Deliver(run.userId)
                     /\ runs' = SetRun(r,
                          IF Exhausted(run)
                          THEN [run EXCEPT !.cleared = TRUE, !.sent = @ \cup {cb.page},
                                           !.cbs = rest \cup {[cb EXCEPT !.pc = "complete"]}]
                          ELSE [run EXCEPT !.cbs = rest, !.sent = @ \cup {cb.page}])
  /\ UNCHANGED <<campaigns, nextId, clients, authSent, response, nPatches, nDeletes,
                 statsReq, ui>>

\* await storage.createLead(...) throws for a reason of the database's own (the
\* connection drops, the statement times out)
TickLeadFails(r, cb, mode) ==
  /\ up
  /\ r \in DOMAIN runs
  /\ cb \in runs[r].cbs
  /\ cb.pc = "lead"
  /\ Cardinality(runs[r].rejected) < MaxFailures
  /\ Reject(r, cb, mode)
  /\ UNCHANGED <<campaigns, nextId, clients, authSent, response, nPatches, nDeletes,
                 statsReq, ui>>

\* a completion branch that leaves the status alone
CompleteUpdatesNoStatus == [progress |-> 100]

\* the updates of the completion branch
CompleteUpdates == [status |-> "completed", progress |-> 100]

\* await storage.updateCampaign(... completed ...) returns; scraping_completed is sent
TickComplete(r, cb) ==
  /\ up
  /\ r \in DOMAIN runs
  /\ cb \in runs[r].cbs
  /\ cb.pc = "complete"
  /\ campaigns' = UpdateCampaign(campaigns, runs[r].campaignId, CompleteUpdates)
  /\ lastEvent' = Event("scraping_completed", runs[r].userId, runs[r].campaignId, 0, 0, 0, 0)
  /\ inbox' = Deliver(runs[r].userId)
  /\ runs' = SetRun(r, [runs[r] EXCEPT !.cbs = @ \ {cb}, !.completions = @ + 1])
  /\ UNCHANGED <<nextId, leads, clients, authSent, response, nPatches, nDeletes, up, statsReq, ui>>

\* ------------------------------------------------- LeadGeneration component

\* the user of the browser tab and the connection of its useWebSocket hook
UiUser == "u1"
UiConn == 1

\* everything but the component's state
ServerVars == <<campaigns, nextId, leads, runs, clients, authSent, inbox, lastEvent, response,
                nPatches, nDeletes, up, statsReq>>

\* the Start button is rendered and enabled
StartEnabled ==
  ui.currentCampaign.id # 0 /\ ~(ui.isProcessing \/ ui.start # "idle")

\* onSubmit: createCampaignMutation.mutate(data); the Create button is disabled while
\* the mutation is pending
UiSubmit ==
  /\ ui.create = "idle"
  /\ ui' = [ui EXCEPT !.create = "sent"]
  /\ UNCHANGED ServerVars

\* the server handles the POST /api/campaigns of the tab
UiCreateServed ==
  /\ ui.create = "sent"
  /\ PostCampaign(MaxUiCampaigns, UiUser, NoUpdates)
  /\ ui' = [ui EXCEPT !.create = "ok", !.createId = nextId + 1]

\* createCampaignMutation.onSuccess: setCurrentCampaign(campaign)
UiCreated ==
  /\ ui.create = "ok"
  /\ ui' = [ui EXCEPT !.create = "idle", !.createId = 0,
                      !.currentCampaign = [id |-> ui.createId, progress |-> 0,
                                           totalPages |-> 0, leadsFound |-> 0]]
  /\ UNCHANGED ServerVars

\* handleStartScraping from the Start button: startCampaignMutation.mutate(id)
UiClickStart ==
  /\ StartEnabled
  /\ ui' = [ui EXCEPT !.start = "sent", !.startId = ui.currentCampaign.id]
  /\ UNCHANGED ServerVars

\* the server handles the POST /api/campaigns/:id/start of the tab
UiStartServed ==
  /\ ui.start = "sent"
  /\ PostStart(UiUser, ui.startId)
  /\ ui' = [ui EXCEPT !.start = "ok"]

\* startCampaignMutation.onSuccess: setIsProcessing(true)
UiStarted ==
  /\ ui.start = "ok"
  /\ ui' = [ui EXCEPT !.start = "idle", !.startId = 0, !.isProcessing = TRUE]
  /\ UNCHANGED ServerVars

\* the effect on lastMessage: a message sent to the tab's socket is handled
UiMessage ==
  /\ lastEvent.seq # ui.lastMessage
  /\ UiConn \in lastEvent.recipients
  /\ ui' = [ui EXCEPT
       !.lastMessage = lastEvent.seq,
       !.currentCampaign =
          IF lastEvent.type = "scraping_progress" /\ ui.currentCampaign.id # 0
          THEN [@ EXCEPT !.progress = lastEvent.progress,
                         !.totalPages = lastEvent.totalPages,
                         !.leadsFound = lastEvent.leadsFound]
          ELSE @,
       !.isProcessing = IF lastEvent.type = "scraping_completed" THEN FALSE ELSE @]
  /\ UNCHANGED ServerVars

\* --------------------------------------------------------- specifications

\* request bodies and socket messages the environment sends
PatchBodies == {[status |-> "draft"], [status |-> "failed"], [progress |-> 50]}

WsMessages ==
  {[type |-> "auth", userId |-> u] : u \in Users \cup {""}} \cup {[type |-> "ping", userId |-> "u1"]}

\* draws of the specifications that are not about leadsFound or isValidated
UnitIncrement == {1}
SimValidated  == {TRUE}

\* the timer of run r is cleared, no callback of it is suspended, and its
\* completion branch has run
RunOver(r) ==
  /\ r \in DOMAIN runs
  /\ runs[r].cleared
  /\ runs[r].cbs = {}
  /\ runs[r].completions >= 1

\* a callback of run r resumes from its await
Resume(r) ==
  \/ \E cb \in runs[r].cbs : TickUpdate(r, cb)
  \/ \E cb \in runs[r].cbs, v \in SimValidated : TickLead(r, cb, v)
  \/ \E cb \in runs[r].cbs : TickComplete(r, cb)

\* the first start request only
StartOnce(u, id) == runs = NoRuns /\ StartReq(u, id)

\* a start request while every earlier timer is still running
StartConcurrent(u, id) == (\A r \in DOMAIN runs : ~RunOver(r)) /\ StartReq(u, id)

\* the interval fires when the callbacks of the earlier ticks have returned
FireInTurn(r, inc) == runs[r].cbs = {} /\ Fire(r, inc)

\* SimSpec: one timer on one campaign, every draw of the increment, overlapping
\* callbacks.
SimNext ==
  \/ CreateCampaignReq("u1", NoUpdates)
  \/ \E id \in DOMAIN campaigns : StartOnce("u1", id)
  \/ \E r \in DOMAIN runs, inc \in Increments : Fire(r, inc)
  \/ \E r \in DOMAIN runs : Resume(r)

SimSpec == Init /\ [][SimNext]_vars

\* ConcSpec: start requests for one campaign while its earlier timers run.
ConcNext ==
  \/ CreateCampaignReq("u1", NoUpdates)
  \/ \E id \in DOMAIN campaigns : StartConcurrent("u1", id)
  \/ \E r \in DOMAIN runs, inc \in UnitIncrement : Fire(r, inc)
  \/ \E r \in DOMAIN runs : Resume(r)

ConcSpec == Init /\ [][ConcNext]_vars

\* LiveSpec: SimSpec's system under fairness: the interval keeps firing until it is
\* cleared and every awaited storage call returns.
LiveNext ==
  \/ CreateCampaignReq("u1", NoUpdates)
  \/ \E id \in DOMAIN campaigns : StartOnce("u1", id)
  \/ \E r \in DOMAIN runs, inc \in UnitIncrement : Fire(r, inc)
  \/ \E r \in DOMAIN runs : Resume(r)

LiveSpec ==
  /\ Init
  /\ [][LiveNext]_vars
  /\ \A r \in 1..MaxStarts :
       /\ WF_vars(\E inc \in UnitIncrement : Fire(r, inc))
       /\ WF_vars(r \in DOMAIN runs /\ Resume(r))

\* WsSpec: the connection registry with the broadcasts of PATCH and of one timer
\* started by either user.
WsNext ==
  \/ CreateCampaignReq("u1", NoUpdates)
  \/ \E u \in Users, id \in DOMAIN campaigns : StartOnce(u, id)
  \/ \E r \in DOMAIN runs, inc \in UnitIncrement : FireInTurn(r, inc)
  \/ \E r \in DOMAIN runs : Resume(r)
  \/ \E u \in Users, id \in DOMAIN campaigns : PatchReq(u, id, [status |-> "draft"])
  \/ \E c \in ConnIds : Connect(c, "u1")
  \/ \E c \in ConnIds, data \in WsMessages : Message(c, data)
  \/ \E c \in ConnIds : CloseStart(c)
  \/ \E c \in ConnIds : CloseEnd(c)

WsSpec == Init /\ [][WsNext]_vars

\* the ids a request can name: those the server has handed out and one that names
\* nothing
RequestIds == (1..nextId) \cup {MaxCampaigns + 1}

\* Spec: the campaign routes and one timer.
Next ==
  \/ CreateCampaignReq("u1", NoUpdates)
  \/ \E id \in RequestIds : StartOnce("u1", id)
  \/ \E r \in DOMAIN runs, inc \in UnitIncrement : Fire(r, inc)
  \/ \E r \in DOMAIN runs : Resume(r)
  \/ \E id \in RequestIds, body \in PatchBodies : PatchReq("u1", id, body)
  \/ \E id \in RequestIds : DeleteReq("u1", id)

Spec == Init /\ [][Next]_vars

\* FailSpec: one timer on an existing campaign whose lead inserts the database may
\* fail, under either treatment of the unhandled rejection.
FailNext ==
  \/ CreateCampaignReq("u1", NoUpdates)
  \/ \E id \in DOMAIN campaigns : StartOnce("u1", id)
  \/ \E r \in DOMAIN runs, inc \in UnitIncrement : Fire(r, inc)
  \/ \E r \in DOMAIN runs : Resume(r)
  \/ \E r \in DOMAIN runs : \E cb \in runs[r].cbs, mode \in UnhandledRejections :
       TickLeadFails(r, cb, mode)

FailSpec == Init /\ [][FailNext]_vars

\* bodies of POST /api/campaigns: the schema lets the body name the status
CreateBodies == {NoUpdates, [status |-> "failed"]}

\* StatusSpec: every writer of a campaign's status: create with and without a status
\* in the body, start, the ticks and the completion of one timer, PATCH and DELETE.
StatusNext ==
  \/ \E body \in CreateBodies : CreateCampaignReq("u1", body)
  \/ \E id \in RequestIds : StartOnce("u1", id)
  \/ \E r \in DOMAIN runs, inc \in UnitIncrement : Fire(r, inc)
  \/ \E r \in DOMAIN runs : Resume(r)
  \/ \E id \in RequestIds, body \in PatchBodies : PatchReq("u1", id, body)
  \/ \E id \in RequestIds : DeleteReq("u1", id)

StatusSpec == Init /\ [][StatusNext]_vars

\* a start request when no timer is running: the first one, or one after the run of
\* the latest timer is over
StartAgain(u, id) == (runs = NoRuns \/ RunOver(Len(runs))) /\ StartReq(u, id)

\* RestartSpec: a campaign that is started, runs to its end and is started again.
RestartNext ==
  \/ CreateCampaignReq("u1", NoUpdates)
  \/ \E id \in DOMAIN campaigns : StartAgain("u1", id)
  \/ \E r \in DOMAIN runs, inc \in UnitIncrement : Fire(r, inc)
  \/ \E r \in DOMAIN runs : Resume(r)

RestartSpec == Init /\ [][RestartNext]_vars

\* request bodies that name a userId: POST /api/campaigns parses its body with a
\* schema that omits userId, PATCH /api/campaigns/:id takes its body as it is
OwnerBodies == {NoUpdates, [userId |-> "u2"]}

\* OwnerSpec: the writers of a campaign row with bodies that name another user.
OwnerNext ==
  \/ \E body \in OwnerBodies : CreateCampaignReq("u1", body)
  \/ \E id \in RequestIds : StartOnce("u1", id)
  \/ \E r \in DOMAIN runs, inc \in UnitIncrement : FireInTurn(r, inc)
  \/ \E r \in DOMAIN runs : Resume(r)
  \/ \E id \in RequestIds, body \in OwnerBodies : PatchReq("u1", id, body)

OwnerSpec == Init /\ [][OwnerNext]_vars

\* who opens a connection: the browser of a logged-in user, or a client with no
\* session
Openers == Users \cup {NoSession.user}

\* TagSpec: connections opened under any session, their auth messages, and the
\* broadcasts of one timer started by either user.
TagNext ==
  \/ CreateCampaignReq("u1", NoUpdates)
  \/ \E u \in Users, id \in DOMAIN campaigns : StartOnce(u, id)
  \/ \E r \in DOMAIN runs, inc \in UnitIncrement : FireInTurn(r, inc)
  \/ \E r \in DOMAIN runs : Resume(r)
  \/ \E c \in ConnIds, who \in Openers : Connect(c, who)
  \/ \E c \in ConnIds, data \in WsMessages : Message(c, data)
  \/ \E c \in ConnIds : CloseStart(c)

TagSpec == Init /\ [][TagNext]_vars

\* bodies of PATCH /api/leads/:id and the lead ids a request names
LeadPatchBodies == {[isValidated |-> FALSE], [id |-> 0]}

LeadRequestIds == {0, 1}

\* the sessions of the requests: none, and those of one user
RestSessions == {s \in Sessions : s.user \in {"", "u1"}}

\* RestSpec: the routes behind isAuthenticated, with requests of every session, for
\* ids that exist and ids that do not, and one timer whose ticks run in turn.
RestNext ==
  \/ \E s \in RestSessions, ok \in BOOLEAN :
       Request("create", s, ok, 0, CreateCampaignReq(s.user, NoUpdates))
  \/ \E s \in RestSessions, ok \in BOOLEAN, cause \in CreateFailures :
       Request("create", s, ok, 0, CreateCampaignFails(s.user, cause))
  \/ \E s \in RestSessions, ok \in BOOLEAN, id \in RequestIds :
       Request("get", s, ok, id, GetCampaignReq(s.user, id))
  \/ \E s \in RestSessions, ok \in BOOLEAN, id \in RequestIds, body \in PatchBodies :
       Request("patch", s, ok, id, PatchReq(s.user, id, body))
  \/ \E s \in RestSessions, ok \in BOOLEAN, id \in RequestIds, body \in PatchBodies :
       Request("patch", s, ok, id, PatchFails(s.user, id, body))
  \/ \E s \in RestSessions, ok \in BOOLEAN, id \in RequestIds :
       Request("delete", s, ok, id, DeleteReq(s.user, id))
  \/ \E s \in RestSessions, ok \in BOOLEAN, id \in RequestIds :
       Request("start", s, ok, id, StartOnce(s.user, id))
  \/ \E s \in RestSessions, ok \in BOOLEAN, id \in LeadRequestIds, body \in LeadPatchBodies :
       Request("patch_lead", s, ok, id, PatchLeadReq(s.user, id, body))
  \/ \E s \in RestSessions, ok \in BOOLEAN, route \in ReadRoutes :
       Request(route, s, ok, 0, ReadReq(route, s.user))
  \/ \E r \in DOMAIN runs, inc \in UnitIncrement : FireInTurn(r, inc)
  \/ \E r \in DOMAIN runs : Resume(r)

RestSpec == Init /\ [][RestNext]_vars

\* StatsSpec: GET /api/stats requests of the owner while the first ticks of a run
\* insert leads, validated or not.
StatsNext ==
  \/ CreateCampaignReq("u1", NoUpdates)
  \/ \E id \in DOMAIN campaigns : StartOnce("u1", id)
  \/ \E r \in DOMAIN runs : runs[r].currentPage < MaxStatsTicks /\ FireInTurn(r, 1)
  \/ \E r \in DOMAIN runs : \E cb \in runs[r].cbs : TickUpdate(r, cb)
  \/ \E r \in DOMAIN runs : \E cb \in runs[r].cbs, v \in ValidatedDraws : TickLead(r, cb, v)
  \/ StatsTotal("u1")
  \/ StatsValidated
  \/ StatsActive
  \/ StatsRespond

StatsSpec == Init /\ [][StatsNext]_vars

\* UiSpec: one LeadGeneration tab with its socket; the user creates and starts
\* campaigns from it while the runs tick.
UiNext ==
  \/ Connect(UiConn, UiUser)
  \/ Message(UiConn, [type |-> "auth", userId |-> UiUser])
  \/ UiSubmit
  \/ UiCreateServed
  \/ UiCreated
  \/ UiClickStart
  \/ UiStartServed
  \/ UiStarted
  \/ UiMessage
  \/ \E r \in DOMAIN runs : FireInTurn(r, 1)
  \/ \E r \in DOMAIN runs : Resume(r)

UiSpec == Init /\ [][UiNext]_vars

\* ------------------------------------------------------------- properties

RowOf(r) == campaigns[runs[r].campaignId]

HasRow(r) == r \in DOMAIN runs /\ runs[r].campaignId \in DOMAIN campaigns

\* C1: once a run has executed its completion step and is over, the campaign row
\* has progress = 100 and totalPages = 10.
C1_CompletedRunRow ==
  \A r \in DOMAIN runs :
    RunOver(r) /\ HasRow(r) => RowOf(r).progress = 100 /\ RowOf(r).totalPages = totalPages

\* C2: every progress value the simulator persists on a campaign row or publishes
\* in a scraping_progress event lies in [0,100].
C2_ProgressInRange ==
  /\ \A id \in DOMAIN campaigns : campaigns[id].progress \in 0..100
  /\ lastEvent.type = "scraping_progress" => lastEvent.progress \in 0..100

\* C3: the leadsFound values of successive ticks of a run never decrease, and the
\* row's leadsFound never goes down while that run is its only writer.
C3_LeadsFoundMonotone ==
  [][/\ \A r \in DOMAIN runs : \A a, b \in runs[r].cbs :
          a.page < b.page => a.leadsFound <= b.leadsFound
     /\ \A id \in DOMAIN campaigns \cap DOMAIN campaigns' :
          campaigns'[id].leadsFound >= campaigns[id].leadsFound]_vars

\* C4: two start requests for one campaign issued before the first run completes
\* create two timers that each run their own 10 ticks, so that 40 leads are inserted
\* for the campaign and two scraping_completed events are published.
C4_TwoTimersTenTicksEach ==
  Len(runs) = 2 /\ runs[1].campaignId = runs[2].campaignId =>
    /\ \A r \in DOMAIN runs : runs[r].currentPage <= totalPages
    /\ RunOver(1) /\ RunOver(2) =>
         /\ \A r \in DOMAIN runs : runs[r].currentPage = totalPages
         /\ Cardinality(LeadsOf(leads, runs[1].campaignId)) = 2 * LeadsPerTick * totalPages
         /\ runs[1].completions + runs[2].completions = 2

\* the sockets that are open and tagged with userId
OpenTagged(userId) ==
  {c \in DOMAIN clients : clients[c].readyState = "open" /\ clients[c].userId = userId}

\* C5: a broadcast is sent to exactly the connections that are open and tagged with
\* its user id at the call; a connection that never sent an auth message with a
\* non-empty userId, one tagged for another user and a closed one receive nothing.
C5_BroadcastTargets ==
  [][/\ lastEvent'.seq # lastEvent.seq =>
          /\ lastEvent'.recipients = OpenTagged(lastEvent'.to)
          /\ \A c \in DOMAIN clients :
               /\ inbox'[c] # inbox[c] => c \in OpenTagged(lastEvent'.to)
               /\ c \in OpenTagged(lastEvent'.to) => inbox'[c] /\ lastEvent'.to \in authSent[c]
               /\ clients[c].readyState # "open" => inbox'[c] = inbox[c]
     /\ lastEvent'.seq = lastEvent.seq =>
          \A c \in DOMAIN clients : inbox'[c] = inbox[c]
     /\ \A c \in DOMAIN clients' : authSent'[c] = {} => ~inbox'[c]]_vars

\* a broadcast reached one socket and passed over one that carries the same tag and
\* is closing
C5_Witness ==
  /\ lastEvent.seq > 0
  /\ \E a, b \in DOMAIN clients :
       /\ a \in lastEvent.recipients /\ inbox[a]
       /\ clients[b].readyState = "closing" /\ clients[b].userId = lastEvent.to
       /\ ~inbox[b]

\* C6 as amended: deleting a campaign that has leads is rejected by the foreign key
\* of leads.campaignId: the campaign row and every lead row stay unchanged, the
\* request is answered 500, and no lead row ever names a missing campaign.
C6_DeleteWithLeadsRejected ==
  [][/\ nDeletes' # nDeletes /\ LeadsOf(leads, response'.id) # {} =>
          /\ campaigns' = campaigns
          /\ leads' = leads
          /\ response'.route = "delete" /\ response'.status = 500
     /\ \A k \in 1..Len(leads') : leads'[k].campaignId \in DOMAIN campaigns']_vars

C6_Witness ==
  /\ response.route = "delete"
  /\ response.status = 500
  /\ response.id \in DOMAIN campaigns
  /\ LeadsOf(leads, response.id) # {}

\* C6 as claimed: deleting a campaign that has leads removes the campaign row and
\* leaves its lead rows in storage.
C6_DeleteOrphansLeads ==
  [][nDeletes' # nDeletes /\ response'.id \in DOMAIN campaigns
       /\ LeadsOf(leads, response'.id) # {} =>
          /\ response'.id \notin DOMAIN campaigns'
          /\ leads' = leads]_vars

\* C7: after a start request for an existing campaign the run eventually stops its
\* timer, the row is completed with progress 100 and scraping_completed is published.
C7_RunCompletes ==
  \A r \in 1..MaxStarts :
    HasRow(r) ~>
      /\ HasRow(r)
      /\ runs[r].cleared
      /\ RowOf(r).status = "completed"
      /\ RowOf(r).progress = 100
      /\ lastEvent.type = "scraping_completed"
      /\ lastEvent.campaignId = runs[r].campaignId

C7_Witness ==
  /\ RunOver(1)
  /\ HasRow(1)
  /\ RowOf(1).status = "completed"
  /\ RowOf(1).progress = 100
  /\ lastEvent.type = "scraping_completed"

\* C8: after k ticks the run's leadsFound is in [k, 5k], and after a completed run
\* of 10 ticks the campaign's leadsFound is between 10 and 50.
C8_LeadsFoundRange ==
  \A r \in DOMAIN runs :
    /\ runs[r].leadsFound >= runs[r].currentPage
    /\ runs[r].leadsFound <= MaxIncrement * runs[r].currentPage
    /\ RunOver(r) /\ HasRow(r) /\ runs[r].currentPage = totalPages
         => RowOf(r).leadsFound \in totalPages..(MaxIncrement * totalPages)

\* C9: every scraping_progress and scraping_completed event of a run is sent to the
\* open connections tagged with the id of the campaign's owner, whoever started it.
C9_EventsReachOwner ==
  [][/\ lastEvent'.seq # lastEvent.seq
     /\ lastEvent'.type \in {"scraping_progress", "scraping_completed"}
     /\ lastEvent'.campaignId \in DOMAIN campaigns'
     => lastEvent'.recipients = OpenTagged(campaigns'[lastEvent'.campaignId].userId)]_vars

\* a start request for id is accepted in this step
StartStep(id) == Len(runs') = Len(runs) + 1 /\ runs'[Len(runs')].campaignId = id

\* the completion branch of a run on id finishes in this step
CompletionStep(id) ==
  \E r \in DOMAIN runs :
    runs[r].campaignId = id /\ runs'[r].completions = runs[r].completions + 1

\* C10 as claimed: start and the simulator change a status only to running (at
\* start) or from running to completed (at completion).
C10_OnlyRunningToCompleted ==
  [][nPatches' = nPatches =>
       \A id \in DOMAIN campaigns \cap DOMAIN campaigns' :
         campaigns'[id].status # campaigns[id].status =>
           \/ campaigns'[id].status = "running" /\ StartStep(id)
           \/ /\ campaigns[id].status = "running"
              /\ campaigns'[id].status = "completed"
              /\ CompletionStep(id)]_vars

\* C10 as amended: start and the simulator write only the statuses running (at
\* start) and completed (at completion, whatever the status was); a tick update
\* leaves the status alone.
C10_StatusWrites ==
  [][nPatches' = nPatches =>
       \A id \in DOMAIN campaigns \cap DOMAIN campaigns' :
         campaigns'[id].status # campaigns[id].status =>
           \/ campaigns'[id].status = "running" /\ StartStep(id)
           \/ campaigns'[id].status = "completed" /\ CompletionStep(id)]_vars

C10_Witness ==
  /\ response.route = "patch"
  /\ response.sent \in {[status |-> "draft"], [status |-> "failed"]}
  /\ response.id \in DOMAIN campaigns
  /\ campaigns[response.id].status = "completed"

\* C11 as claimed: once a lead insert of a run has failed, no later tick of the run
\* executes and no scraping_progress event is published for the failed tick or a
\* later one.
C11_FailureHaltsRun ==
  [][\A r \in DOMAIN runs :
       runs[r].rejected # {} =>
         /\ runs'[r].currentPage = runs[r].currentPage
         /\ \A p \in runs'[r].sent \ runs[r].sent : \A q \in runs[r].rejected : p < q]_vars

\* C11 as amended: a failed lead insert ends only the callback of its own tick, which
\* inserts no further lead and publishes no event, and leaves the interval set; the
\* later ticks stop only when the unhandled rejection ends the process, after which
\* nothing happens at all.
C11_FailureEndsOnlyItsTick ==
  [][/\ \A r \in DOMAIN runs :
          /\ runs'[r].rejected # runs[r].rejected =>
               /\ leads' = leads /\ campaigns' = campaigns
               /\ lastEvent' = lastEvent /\ inbox' = inbox
               /\ runs'[r].cleared = runs[r].cleared
               /\ runs'[r].currentPage = runs[r].currentPage
          /\ runs'[r].rejected \cap runs'[r].sent = {}
          /\ \A cb \in runs'[r].cbs : cb.page \notin runs'[r].rejected
     /\ up' # up => \E r \in DOMAIN runs : runs'[r].rejected # runs[r].rejected
     /\ ~up => vars' = vars]_vars

\* an insert of a tick failed, the process lives, and a later tick of the same run
\* has published its scraping_progress event
C11_Witness ==
  /\ up
  /\ lastEvent.type = "scraping_progress"
  /\ \E r \in DOMAIN runs : \E q \in runs[r].rejected, p \in runs[r].sent : p > q

\* a request of one of the routes that take an id is answered in this step
Answered(routes) == response' # response /\ response'.route \in routes

\* C12: a request that names a campaign or a lead that does not exist is answered
\* 404 (GET, PATCH, DELETE and start of a campaign, PATCH of a lead).
C12_MissingIdAnswers404 ==
  [][/\ Answered({"get", "patch", "delete", "start"}) /\ response'.id \notin DOMAIN campaigns
          /\ response'.status # 401
          => response'.status = 404
     /\ Answered({"patch_lead"}) /\ response'.id \notin LeadIds(leads)
          /\ response'.status # 401
          => response'.status = 404]_vars

\* C13: a route answers 400 only for a malformed request body, and a storage failure
\* during a route is answered 500.
C13_StatusByCause ==
  /\ response.status = 400 => response.cause = "body"
  /\ response.cause = "storage" => response.status = 500

C15_TagIsLatestAuth ==
  [][/\ \A c \in DOMAIN clients' : clients'[c].userId = clients'[c].claimed
     /\ lastEvent'.seq # lastEvent.seq =>
          \A c \in DOMAIN clients :
            IF clients[c].readyState = "open" /\ clients[c].claimed = lastEvent'.to
            THEN c \in lastEvent'.recipients /\ inbox'[c]
            ELSE c \notin lastEvent'.recipients /\ inbox'[c] = inbox[c]]_vars

\* a broadcast to a user reached a connection opened under another user's session
\* that named the user, and passed over a connection that had named the user and
\* then named another one
C15_Witness ==
  /\ lastEvent.seq > 0
  /\ \E a, b \in DOMAIN clients :
       /\ clients[a].openedBy \notin {lastEvent.to, NoSession.user}
       /\ clients[a].claimed = lastEvent.to
       /\ a \in lastEvent.recipients /\ inbox[a]
       /\ lastEvent.to \in authSent[b]
       /\ clients[b].readyState = "open"
       /\ clients[b].claimed # lastEvent.to
       /\ b \notin lastEvent.recipients /\ ~inbox[b]

\* the step is a create or PATCH request for id whose body sets the status "failed"
SetsFailed(id) ==
  /\ nextId' # nextId \/ nPatches' # nPatches
  /\ response'.route \in {"create", "patch"}
  /\ response'.id = id
  /\ "status" \in DOMAIN response'.sent
  /\ response'.sent.status = "failed"

\* C16: a campaign's status becomes "failed" only in a create or PATCH request whose
\* body sets it; create without a status, start, ticks, completion and delete never
\* produce it.
C16_FailedOnlyByRequestBody ==
  [][\A id \in DOMAIN campaigns' :
       /\ campaigns'[id].status = "failed"
       /\ id \in DOMAIN campaigns => campaigns[id].status # "failed"
       => SetsFailed(id)]_vars

\* a campaign created without a status was started and ticked, was then set to
\* "failed" by a PATCH and still exists after a DELETE request
C16_Witness ==
  /\ \E id \in DOMAIN campaigns : campaigns[id].status = "failed" /\ campaigns[id].totalPages > 0
  /\ runs # NoRuns
  /\ nPatches = 1
  /\ nDeletes = 1

\* C17: no request and no tick takes a lead out of storage: every lead id in storage
\* before a step is in storage after it.
C17_LeadIdsOnlyGrow ==
  [][LeadIds(leads) \subseteq LeadIds(leads')]_vars

\* the row after an update that names fields: each named field has the update's
\* value, every other field is as before
Overwritten(before, after, fields) ==
  \A f \in DOMAIN before :
    after[f] = IF f \in DOMAIN fields THEN fields[f] ELSE before[f]

C19_EventFieldsAgree ==
  lastEvent.type = "scraping_progress" =>
    /\ lastEvent.totalPages = 10
    /\ lastEvent.currentPage \in 1..10
    /\ lastEvent.progress = 10 * lastEvent.currentPage

\* C20: every tick that runs to its end inserts two leads for the run's campaign, and
\* a run that has completed has inserted exactly 20 leads for it.
C20_TwentyLeadsPerRun ==
  \A r \in DOMAIN runs :
    /\ \A k \in 1..Len(leads) : leads[k].campaignId = runs[r].campaignId
    /\ Len(leads) >= LeadsPerTick * Cardinality(runs[r].sent)
    /\ RunOver(r) => Len(leads) = 20

\* C21: the scraping_progress event of a tick is published after the row update and
\* both lead inserts of that tick, and scraping_completed is published after the
\* status "completed" is persisted and after the scraping_progress event of tick 10.
C21_TickStepsOrdered ==
  [][\A r \in DOMAIN runs :
       /\ \A p \in runs'[r].sent \ runs[r].sent :
            /\ \E cb \in runs[r].cbs : cb.page = p /\ cb.pc = "lead" /\ cb.i = LeadsPerTick - 1
            /\ Len(leads') = Len(leads) + 1
       /\ runs'[r].completions # runs[r].completions =>
            /\ HasRow(r) => campaigns'[runs[r].campaignId].status = "completed"
            /\ totalPages \in runs[r].sent]_vars

\* C22: a run executes exactly 10 ticks and publishes scraping_completed exactly
\* once: its page counter never exceeds 10, no tick starts after the interval is
\* cleared, and a run that is over has counted 10 pages and completed once.
C22_TenTicksOneCompletion ==
  [][\A r \in DOMAIN runs :
       /\ runs'[r].currentPage <= totalPages
       /\ runs'[r].completions <= 1
       /\ runs[r].cleared => runs'[r].currentPage = runs[r].currentPage
       /\ RunOver(r) => runs[r].currentPage = totalPages /\ runs[r].completions = 1]_vars

\* the timers of campaign id whose interval is set
LiveTimers(id) == {r \in DOMAIN runs : runs[r].campaignId = id /\ ~runs[r].cleared}

\* C23: without PATCH, a campaign whose status is "completed" has progress 100 and
\* no live timer, and a campaign with a live timer has status "running".
C23_CompletedMeansDone ==
  \A id \in DOMAIN campaigns :
    /\ campaigns[id].status = "completed" =>
         campaigns[id].progress = 100 /\ LiveTimers(id) = {}
    /\ LiveTimers(id) # {} => campaigns[id].status = "running"

\* C24: a start request creates a timer only if its id names an existing campaign
\* row; a timer of a missing campaign inserts no lead and publishes no event.
C24_StartNeedsCampaign ==
  [][/\ Len(runs') > Len(runs) => runs'[Len(runs')].campaignId \in DOMAIN campaigns
     /\ \A r \in DOMAIN runs :
          runs[r].campaignId \notin DOMAIN campaigns =>
            /\ LeadsOf(leads', runs[r].campaignId) = {}
            /\ lastEvent'.seq # lastEvent.seq =>
                 lastEvent'.campaignId # runs[r].campaignId
                   \/ lastEvent'.type = "campaign_updated"]_vars

\* C25: the userId of a campaign is the user who created it, whatever the body of
\* the create request names, and it never changes afterwards.
C25_OwnerNeverChanges ==
  [][\A id \in DOMAIN campaigns' :
       IF id \in DOMAIN campaigns
       THEN campaigns'[id].userId = campaigns[id].userId
       ELSE campaigns'[id].userId = response'.user]_vars

\* C26: a request of one user that names a campaign of another user does not read,
\* change, delete or start it: the row stays as it is, no timer is created and the
\* request is not answered 200.
C26_OtherUsersCampaignUntouched ==
  [][/\ response' # response
     /\ response'.id \in DOMAIN campaigns
     /\ campaigns[response'.id].userId # response'.user
     => /\ campaigns' = campaigns
        /\ runs' = runs
        /\ response'.status # 200]_vars

\* C27: a start request sets the status of the row to "running" and its progress to
\* 0 and leaves totalPages, leadsFound and userId as an earlier run left them; no
\* other row and no lead changes.
C27_StartFrame ==
  [][\A id \in DOMAIN campaigns :
       StartStep(id) =>
         /\ DOMAIN campaigns' = DOMAIN campaigns
         /\ campaigns'[id].status = "running"
         /\ campaigns'[id].progress = 0
         /\ campaigns'[id].totalPages = campaigns[id].totalPages
         /\ campaigns'[id].leadsFound = campaigns[id].leadsFound
         /\ campaigns'[id].userId = campaigns[id].userId
         /\ \A other \in DOMAIN campaigns \ {id} : campaigns'[other] = campaigns[other]
         /\ leads' = leads]_vars

\* a campaign was started again after a run that ended: its row is running at
\* progress 0 and still has the page and lead counts of the earlier run
C27_Witness ==
  /\ Len(runs) = 2
  /\ RunOver(1)
  /\ runs[2].currentPage = 0
  /\ HasRow(2)
  /\ RowOf(2).status = "running"
  /\ RowOf(2).progress = 0
  /\ RowOf(2).totalPages >= totalPages - 1
  /\ RowOf(2).leadsFound > 0

\* C28: every campaign row a create request inserts has status "draft", progress 0,
\* totalPages 0 and leadsFound 0, whatever the body that passed validation.
C28_CreatedAsDraft ==
  [][\A id \in DOMAIN campaigns' \ DOMAIN campaigns :
       /\ campaigns'[id].status = "draft"
       /\ campaigns'[id].progress = 0
       /\ campaigns'[id].totalPages = 0
       /\ campaigns'[id].leadsFound = 0]_vars

\* C29: every response of GET /api/stats has validatedLeads <= totalLeads and a
\* conversionRate between 0 and 100, which is "0.0" when totalLeads is 0, also when
\* ticks insert leads between the count queries of getLeadStats
C29_StatsConsistent ==
  statsReq.pc = "done" =>
    /\ statsReq.validatedLeads <= statsReq.totalLeads
    /\ statsReq.conversionRate \in 0..1000
    /\ (statsReq.totalLeads = 0 => statsReq.conversionRate = 0)

\* C30: in the LeadGeneration tab isProcessing becomes true only on a successful start
\* response, a start is issued only while isProcessing is false and no start is
\* pending, isProcessing becomes false only on the scraping_completed event of the
\* current campaign, and an event of another campaign leaves the displayed
\* progress, pages and leads of the current campaign as they are
C30_ProcessingFollowsOwnRun ==
  [][/\ (~ui.isProcessing /\ ui'.isProcessing) => ui.start = "ok"
     /\ (ui.start = "idle" /\ ui'.start = "sent") => ~ui.isProcessing
     /\ (ui.start # "idle") => ui'.start # "sent" \/ ui.start = "sent"
     /\ (ui.isProcessing /\ ~ui'.isProcessing) =>
           /\ lastEvent.type = "scraping_completed"
           /\ lastEvent.campaignId = ui.currentCampaign.id
     /\ (ui'.lastMessage # ui.lastMessage /\ lastEvent.campaignId # ui.currentCampaign.id) =>
           ui'.currentCampaign = ui.currentCampaign]_vars

====
